---- MODULE Spec2Model ----
(***************************************************************************)
(* Model of src/example.py: a command-line client that parses its flags,   *)
(* builds one OpenAI client, issues one chat-completion request (streaming *)
(* or not) and prints the result on standard output.                       *)
(*                                                                         *)
(* Text is modelled character by character: a Python str is a sequence of  *)
(* one-character strings, so that concatenation, separators, newlines and  *)
(* number formatting are all visible to the checker.  An optional value    *)
(* (a flag that may be absent, an environment variable that may be unset,  *)
(* a chunk content that may be null) is a sequence of length 0 or 1.       *)
(***************************************************************************)
EXTENDS Integers, Sequences, FiniteSets

VARIABLES
    argv,       \* sys.argv[1:]: the argument strings of the command line
    environ,    \* os.environ restricted to the two variables the script reads
    args,       \* the namespace returned by parse_args (None before)
    client,     \* the OpenAI client object (None before construction)
    pc,         \* position of main
    calls,      \* the calls main has made to client.chat.completions.create
    out,        \* everything written to sys.stdout so far
    chunk,      \* loop variable of the streaming loop (None before the loop)
    received,   \* delta contents of the chunks the stream has yielded so far
    response,   \* the non-streaming response object (None before the call)
    raised,     \* where an exception left main: "none", "parse" (the
                \* SystemExit of parse_args), "client" (the constructor),
                \* "create", "stream"
    status      \* exit status of the process: {} while running, then {0},
                \* {1} (uncaught exception) or {2} (command line rejected)

vars == <<argv, environ, args, client, pc, calls, out, chunk, received,
          response, raised, status>>

-----------------------------------------------------------------------------
(* Bounds of the model *)

MaxChunks == 3      \* chunks a stream yields before it must end or fail
MaxArgs == 2        \* argument strings on the command line

-----------------------------------------------------------------------------
(* Optional values *)

None == <<>>
Some(x) == <<x>>

-----------------------------------------------------------------------------
(* Literals of the script *)

NL == "\n"

DefaultApiKey ==
    <<"s", "k", "-", "c", "u", "r", "s", "o", "r", "-", "a", "p", "i", "-",
      "k", "e", "y">>
DefaultBaseUrl ==
    <<"h", "t", "t", "p", ":", "/", "/", "l", "o", "c", "a", "l", "h", "o",
      "s", "t", ":", "3", "0", "1", "0", "/", "v", "1">>
DefaultModel ==
    <<"c", "l", "a", "u", "d", "e", "-", "3", ".", "7", "-", "s", "o", "n",
      "n", "e", "t", "-", "t", "h", "i", "n", "k", "i", "n", "g">>
DefaultPrompt ==
    <<"E", "x", "p", "l", "a", "i", "n", " ", "q", "u", "a", "n", "t", "u",
      "m", " ", "c", "o", "m", "p", "u", "t", "i", "n", "g", " ", "i", "n",
      " ", "s", "i", "m", "p", "l", "e", " ", "t", "e", "r", "m", "s", ".">>

SendingPrefix ==
    <<"S", "e", "n", "d", "i", "n", "g", " ", "r", "e", "q", "u", "e", "s",
      "t", " ", "t", "o", " ">>
SendingSuffix ==
    <<".", ".", ".">>
PromptPrefix ==
    <<"P", "r", "o", "m", "p", "t", ":", " ">>
ModelPrefix ==
    <<"M", "o", "d", "e", "l", ":", " ">>
CompletionPrefix ==
    <<"C", "o", "m", "p", "l", "e", "t", "i", "o", "n", " ", "t", "o", "k",
      "e", "n", "s", ":", " ">>
PromptTokensPrefix ==
    <<"P", "r", "o", "m", "p", "t", " ", "t", "o", "k", "e", "n", "s", ":",
      " ">>
TotalPrefix ==
    <<"T", "o", "t", "a", "l", " ", "t", "o", "k", "e", "n", "s", ":", " ">>

SeparatorWidth == 50

\* "-" * 50
Separator == [i \in 1..SeparatorWidth |-> "-"]

-----------------------------------------------------------------------------
(* Input domains *)

\* the option strings of the parser: -h/--help is added by ArgumentParser
\* (line 15), the others by add_argument (lines 16-25)
OptH == <<"-", "h">>
OptHelp == <<"-", "-", "h", "e", "l", "p">>
OptApiKey == <<"-", "-", "a", "p", "i", "-", "k", "e", "y">>
OptBaseUrl == <<"-", "-", "b", "a", "s", "e", "-", "u", "r", "l">>
OptModel == <<"-", "-", "m", "o", "d", "e", "l">>
OptPrompt == <<"-", "-", "p", "r", "o", "m", "p", "t">>
OptStream == <<"-", "-", "s", "t", "r", "e", "a", "m">>

\* further argument strings: an abbreviation of --model, --model and
\* --prompt with the value attached by "=", a string that looks like an
\* option and is none
AbbrevModel == <<"-", "-", "m", "o", "d">>
ModelEqK == OptModel \o <<"=", "k">>
PromptEqDashX == OptPrompt \o <<"=", "-", "x">>
DashX == <<"-", "x">>

\* a string that abbreviates every "--" option at once
AmbiguousEqX == <<"-", "-", "=", "x">>

\* the argument strings the command lines of the model are made of; the
\* values are the empty string and "k"
ArgStrings == {OptApiKey, OptBaseUrl, OptModel, OptPrompt, OptStream, OptHelp,
               AbbrevModel, ModelEqK, PromptEqDashX, DashX, AmbiguousEqX,
               <<>>, <<"k">>}
ArgLists == UNION {[1..n -> ArgStrings] : n \in 0..MaxArgs}

\* values an environment variable may carry; the empty string is one
EnvTexts == {<<>>, <<"e">>}

Optional(S) == {None} \cup {Some(x) : x \in S}

\* contents of a streamed delta: null, or a fragment
Fragments == {<<"H", "e", "l">>, <<"l", "o">>}
DeltaContents == Optional(Fragments)

\* non-streaming responses of the endpoint
Contents == {<<>>, <<"H", "e", "l", "l", "o">>, <<"a", NL, "b">>}
EchoedModels == {<<"g", "4">>, <<"m", "x">>}
Usages == { [prompt_tokens |-> 5, completion_tokens |-> 2, total_tokens |-> 7],
            [prompt_tokens |-> 0, completion_tokens |-> 10, total_tokens |-> 10],
            [prompt_tokens |-> 12, completion_tokens |-> 12, total_tokens |-> 104] }
Responses == [content : Contents, model : EchoedModels, usage : Usages]

-----------------------------------------------------------------------------
(* Library functions used by the script *)

\* variant: os.environ.get(key) or default, an empty value counts as unset
EnvGetOrDefault(env, key, default) ==
    IF env[key] = None \/ env[key][1] = <<>> THEN default ELSE env[key][1]

\* os.environ.get(key, default): the value when the variable is set (even to
\* the empty string), the default only when it is unset
EnvGet(env, key, default) ==
    IF env[key] = None THEN default ELSE env[key][1]

IsPrefix(p, t) ==
    /\ Len(p) <= Len(t)
    /\ SubSeq(t, 1, Len(p)) = p

\* the optional arguments of the parser: option string, attribute of the
\* namespace, and whether the action consumes one value (store) or none
\* (help, store_true)
Options ==
    { [string |-> OptH,       dest |-> "help",     takes_value |-> FALSE],
      [string |-> OptHelp,    dest |-> "help",     takes_value |-> FALSE],
      [string |-> OptApiKey,  dest |-> "api_key",  takes_value |-> TRUE],
      [string |-> OptBaseUrl, dest |-> "base_url", takes_value |-> TRUE],
      [string |-> OptModel,   dest |-> "model",    takes_value |-> TRUE],
      [string |-> OptPrompt,  dest |-> "prompt",   takes_value |-> TRUE],
      [string |-> OptStream,  dest |-> "stream",   takes_value |-> FALSE] }

\* the defaults of the namespace: the credential and the address come from
\* the environment when the variable is set, the rest are literals
Defaults(env) ==
    [api_key  |-> EnvGet(env, "CURSOR_API_KEY", DefaultApiKey),
     base_url |-> EnvGet(env, "CURSOR_BASE_URL", DefaultBaseUrl),
     model    |-> DefaultModel,
     prompt   |-> DefaultPrompt,
     stream   |-> FALSE]

Digits == <<"0", "1", "2", "3", "4", "5", "6", "7", "8", "9">>

\* position of the first "=" of a, 0 when there is none
EqPos(a) ==
    IF \E i \in 1..Len(a) : a[i] = "="
    THEN CHOOSE i \in 1..Len(a) :
            a[i] = "=" /\ \A j \in 1..(i - 1) : a[j] # "="
    ELSE 0

\* a.split("=", 1): what stands before and after the first "="
BeforeEq(a) == SubSeq(a, 1, EqPos(a) - 1)
AfterEq(a) == SubSeq(a, EqPos(a) + 1, Len(a))

IsOptionString(a) == \E o \in Options : o.string = a
OptionOf(a) == CHOOSE o \in Options : o.string = a

AllDigits(t) == t # <<>> /\ \A i \in 1..Len(t) : \E d \in 1..10 : t[i] = Digits[d]

\* argparse's negative-number pattern ^-\d+$|^-\d*\.\d+$ ($ also matches
\* before one final newline), for ASCII digits
IsNegativeNumber(a) ==
    LET b == IF Len(a) > 0 /\ a[Len(a)] = NL
             THEN SubSeq(a, 1, Len(a) - 1) ELSE a
        t == SubSeq(b, 2, Len(b))
    IN  /\ Len(b) >= 2
        /\ b[1] = "-"
        /\ \/ AllDigits(t)
           \/ \E i \in 1..(Len(t) - 1) :
                 /\ t[i] = "."
                 /\ i = 1 \/ AllDigits(SubSeq(t, 1, i - 1))
                 /\ AllDigits(SubSeq(t, i + 1, Len(t)))

\* _get_option_tuples for a string of at least two characters that begins
\* with "-": the options it may stand for, each with the value attached.
\* A "--" string is cut at its first "=" and stands for every option string
\* it begins; a "-" string stands for the option string made of its first
\* two characters, the rest attached, and for every option string it begins.
OptionTuples(a) ==
    IF a[2] = "-"
    THEN LET prefix == IF EqPos(a) > 0 THEN BeforeEq(a) ELSE a
             explicit == IF EqPos(a) > 0 THEN Some(AfterEq(a)) ELSE None
         IN  {[option |-> o, explicit |-> explicit] :
                 o \in {x \in Options : IsPrefix(prefix, x.string)}}
    ELSE {[option |-> o, explicit |-> Some(SubSeq(a, 3, Len(a)))] :
             o \in {x \in Options : x.string = SubSeq(a, 1, 2)}}
         \cup
         {[option |-> o, explicit |-> None] :
             o \in {x \in Options : /\ x.string # SubSeq(a, 1, 2)
                                    /\ IsPrefix(a, x.string)}}

\* classification of one argument string: kind "A" (positional), "O" (an
\* option of the parser, with the value attached if any), "U" (looks like an
\* option, is none), "-" (the "--" separator) or "ambiguous"
Classified(kind, option, explicit) ==
    [kind |-> kind, option |-> option, explicit |-> explicit]

\* _parse_optional
ParseOptional(a) ==
    IF a = <<>> THEN Classified("A", None, None)
    ELSE IF a[1] # "-" THEN Classified("A", None, None)
    ELSE IF IsOptionString(a) THEN Classified("O", Some(OptionOf(a)), None)
    ELSE IF Len(a) = 1 THEN Classified("A", None, None)
    ELSE IF EqPos(a) > 0 /\ IsOptionString(BeforeEq(a))
         THEN Classified("O", Some(OptionOf(BeforeEq(a))), Some(AfterEq(a)))
    ELSE IF Cardinality(OptionTuples(a)) > 1
         THEN Classified("ambiguous", None, None)
    ELSE IF Cardinality(OptionTuples(a)) = 1
         THEN LET tup == CHOOSE x \in OptionTuples(a) : TRUE
              IN  Classified("O", Some(tup.option), tup.explicit)
    ELSE IF IsNegativeNumber(a) THEN Classified("A", None, None)
    ELSE IF \E i \in 1..Len(a) : a[i] = " " THEN Classified("A", None, None)
    ELSE Classified("U", None, None)

DoubleDash == <<"-", "-">>

\* the first pass of _parse_known_args over the whole command line: the
\* first "--" has kind "-", every string after it is positional, the others
\* are classified by _parse_optional
Pattern(av) ==
    [i \in 1..Len(av) |->
        IF \E j \in 1..(i - 1) : av[j] = DoubleDash
        THEN Classified("A", None, None)
        ELSE IF av[i] = DoubleDash THEN Classified("-", None, None)
        ELSE ParseOptional(av[i])]

Outcome(kind, ns) == [outcome |-> kind, ns |-> ns]

\* a "-h" with characters attached is read as single-letter options written
\* together: it stands for help when every attached character is "h"
OnlyH(t) == t # <<>> /\ \A i \in 1..Len(t) : t[i] = "h"

\* the second pass of _parse_known_args, from position i on, with the
\* namespace ns built so far and extras telling whether a string was left
\* over.  Strings are consumed left to right: a string that is no option of
\* the parser is left over; a value-taking option takes the value attached
\* to it, else the next string when that is positional, else the parse
\* fails; an option without value fails on an attached value; help ends
\* the parse at once; left-over strings make the parse fail at the end.
RECURSIVE Consume(_, _, _, _, _)
Consume(av, pat, i, ns, extras) ==
    IF i > Len(av)
    THEN (IF extras THEN Outcome("error", ns) ELSE Outcome("ok", ns))
    ELSE IF pat[i].kind # "O" THEN Consume(av, pat, i + 1, ns, TRUE)
    ELSE LET o == pat[i].option[1]
             explicit == pat[i].explicit
         IN  IF o.takes_value
             THEN IF explicit # None
                  THEN Consume(av, pat, i + 1,
                               [ns EXCEPT ![o.dest] = explicit[1]], extras)
                  ELSE IF i < Len(av) /\ pat[i + 1].kind = "A"
                  THEN Consume(av, pat, i + 2,
                               [ns EXCEPT ![o.dest] = av[i + 1]], extras)
                  ELSE Outcome("error", ns)
             ELSE IF explicit # None
                     /\ ~(o.string = OptH /\ OnlyH(explicit[1]))
                  THEN Outcome("error", ns)
             ELSE IF o.dest = "help" THEN Outcome("help", ns)
             ELSE Consume(av, pat, i + 1, [ns EXCEPT ![o.dest] = TRUE], extras)

\* parser.parse_args() on the command line av under the environment env: an
\* ambiguous string anywhere fails the parse before any option acts
ParseOutcome(av, env) ==
    IF \E i \in 1..Len(av) : Pattern(av)[i].kind = "ambiguous"
    THEN Outcome("error", Defaults(env))
    ELSE Consume(av, Pattern(av), 1, Defaults(env), FALSE)

\* the text print_help writes, as argparse formats it for the parser of
\* lines 15-25 when the program is run as example.py and lines hold 80
\* columns (the usage line carries the program name and is wrapped to the
\* width of the terminal)
HelpText ==
    <<"u", "s", "a", "g", "e", ":", " ", "e", "x", "a", "m", "p", "l", "e",
      ".", "p", "y", " ", "[", "-", "h", "]", " ", "[", "-", "-", "a", "p",
      "i", "-", "k", "e", "y", " ", "A", "P", "I", "_", "K", "E", "Y", "]",
      " ", "[", "-", "-", "b", "a", "s", "e", "-", "u", "r", "l", " ", "B",
      "A", "S", "E", "_", "U", "R", "L", "]", NL, " ", " ", " ", " ", " ",
      " ", " ", " ", " ", " ", " ", " ", " ", " ", " ", " ", " ", " ", "[",
      "-", "-", "m", "o", "d", "e", "l", " ", "M", "O", "D", "E", "L", "]",
      " ", "[", "-", "-", "p", "r", "o", "m", "p", "t", " ", "P", "R", "O",
      "M", "P", "T", "]", " ", "[", "-", "-", "s", "t", "r", "e", "a", "m",
      "]", NL, NL, "C", "u", "r", "s", "o", "r", "-", "T", "o", "-", "O",
      "p", "e", "n", "A", "I", "-", "N", "e", "x", "u", "s", " ", "E", "x",
      "a", "m", "p", "l", "e", NL, NL, "o", "p", "t", "i", "o", "n", "s",
      ":", NL, " ", " ", "-", "h", ",", " ", "-", "-", "h", "e", "l", "p",
      " ", " ", " ", " ", " ", " ", " ", " ", " ", " ", " ", "s", "h", "o",
      "w", " ", "t", "h", "i", "s", " ", "h", "e", "l", "p", " ", "m", "e",
      "s", "s", "a", "g", "e", " ", "a", "n", "d", " ", "e", "x", "i", "t",
      NL, " ", " ", "-", "-", "a", "p", "i", "-", "k", "e", "y", " ", "A",
      "P", "I", "_", "K", "E", "Y", " ", " ", " ", " ", "A", "P", "I", " ",
      "k", "e", "y", " ", "f", "o", "r", " ", "t", "h", "e", " ", "C", "u",
      "r", "s", "o", "r", "-", "T", "o", "-", "O", "p", "e", "n", "A", "I",
      "-", "N", "e", "x", "u", "s", " ", "s", "e", "r", "v", "i", "c", "e",
      NL, " ", " ", "-", "-", "b", "a", "s", "e", "-", "u", "r", "l", " ",
      "B", "A", "S", "E", "_", "U", "R", "L", " ", " ", "B", "a", "s", "e",
      " ", "U", "R", "L", " ", "f", "o", "r", " ", "t", "h", "e", " ", "C",
      "u", "r", "s", "o", "r", "-", "T", "o", "-", "O", "p", "e", "n", "A",
      "I", "-", "N", "e", "x", "u", "s", " ", "s", "e", "r", "v", "i", "c",
      "e", NL, " ", " ", "-", "-", "m", "o", "d", "e", "l", " ", "M", "O",
      "D", "E", "L", " ", " ", " ", " ", " ", " ", " ", " ", "M", "o", "d",
      "e", "l", " ", "t", "o", " ", "u", "s", "e", " ", "f", "o", "r", " ",
      "t", "h", "e", " ", "c", "o", "m", "p", "l", "e", "t", "i", "o", "n",
      NL, " ", " ", "-", "-", "p", "r", "o", "m", "p", "t", " ", "P", "R",
      "O", "M", "P", "T", " ", " ", " ", " ", " ", " ", "P", "r", "o", "m",
      "p", "t", " ", "t", "o", " ", "s", "e", "n", "d", " ", "t", "o", " ",
      "t", "h", "e", " ", "m", "o", "d", "e", "l", NL, " ", " ", "-", "-",
      "s", "t", "r", "e", "a", "m", " ", " ", " ", " ", " ", " ", " ", " ",
      " ", " ", " ", " ", " ", "W", "h", "e", "t", "h", "e", "r", " ", "t",
      "o", " ", "s", "t", "r", "e", "a", "m", " ", "t", "h", "e", " ", "r",
      "e", "s", "p", "o", "n", "s", "e", NL>>

\* str(n) for an int, as the f-strings format the token counts
RECURSIVE IntStr(_)
IntStr(n) ==
    IF n < 0 THEN <<"-">> \o IntStr(-n)
    ELSE IF n < 10 THEN <<Digits[n + 1]>>
    ELSE IntStr(n \div 10) \o <<Digits[(n % 10) + 1]>>

\* print(text, end=end) on the file f: the text, then the end string
Emit(f, text, end) == f \o text \o end

-----------------------------------------------------------------------------
(* Parts of main *)

\* lines 34-36: the three header lines
Header(a) ==
    Emit(Emit(Emit(<<>>,
        SendingPrefix \o a.model \o SendingSuffix, <<NL>>),
        PromptPrefix \o a.prompt, <<NL>>),
        Separator, <<NL>>)

\* variant: the model argument is not passed on, the literal is sent
ChatRequestDefaultModel(a, s) ==
    [model |-> DefaultModel,
     messages |-> << [role |-> "user", content |-> a.prompt] >>,
     stream |-> s]

\* the keyword arguments of client.chat.completions.create
ChatRequest(a, s) ==
    [model |-> a.model,
     messages |-> << [role |-> "user", content |-> a.prompt] >>,
     stream |-> s]

\* one invocation as the endpoint sees it: the client's credential and base
\* address, and the request body
Invocation(c, req) ==
    [api_key |-> c.api_key, base_url |-> c.base_url, request |-> req]

-----------------------------------------------------------------------------
(* Initial state: the process has started, nothing has run *)

Init ==
    /\ argv \in ArgLists
    /\ environ \in [CURSOR_API_KEY : Optional(EnvTexts),
                    CURSOR_BASE_URL : Optional(EnvTexts)]
    /\ args = None
    /\ client = None
    /\ pc = "parse"
    /\ calls = <<>>
    /\ out = <<>>
    /\ chunk = None
    /\ received = <<>>
    /\ response = None
    /\ raised = "none"
    /\ status = {}

-----------------------------------------------------------------------------
(* Actions *)

\* SystemExit(code) raised inside parse_args leaves main and ends the process
SystemExit(code) ==
    /\ raised' = "parse"
    /\ status' = {code}
    /\ pc' = "exit"

\* lines 15-26: build the parser (defaults read from the environment) and
\* parse the command line: the namespace is returned, or help is printed on
\* standard output and the process exits with 0, or the command line is
\* rejected (message on standard error) and the process exits with 2
ParseArgs ==
    /\ pc = "parse"
    /\ LET r == ParseOutcome(argv, environ) IN
       \/ /\ r.outcome = "ok"
          /\ args' = Some(r.ns)
          /\ pc' = "client"
          /\ UNCHANGED <<out, raised, status>>
       \/ /\ r.outcome = "help"
          /\ out' = out \o HelpText
          /\ SystemExit(0)
          /\ UNCHANGED args
       \/ /\ r.outcome = "error"
          /\ SystemExit(2)
          /\ UNCHANGED <<args, out>>
    /\ UNCHANGED <<argv, environ, client, calls, chunk, received, response>>

\* the exception of a failed constructor, call or stream leaves main: the
\* interpreter ends the process with status 1, standard output keeps what
\* was written
Propagate(where) ==
    /\ raised' = where
    /\ status' = {1}
    /\ pc' = "exit"

\* lines 29-32: construct the client from the parsed credential and address;
\* the constructor either returns the client or raises, and nothing in main
\* catches its exception
InitClient ==
    /\ pc = "client"
    /\ \/ /\ client' = Some([api_key |-> args[1].api_key,
                             base_url |-> args[1].base_url])
          /\ pc' = "header"
          /\ UNCHANGED <<raised, status>>
       \/ /\ Propagate("client")
          /\ UNCHANGED client
    /\ UNCHANGED <<argv, environ, args, calls, out, chunk, received, response>>

\* lines 34-36: print the header
WriteHeader ==
    /\ pc = "header"
    /\ out' = out \o Header(args[1])
    /\ pc' = "call"
    /\ UNCHANGED <<argv, environ, args, client, calls, chunk, received,
                   response, raised, status>>

\* lines 38-46, args.stream true: the call either returns a stream object or
\* raises
CreateStream ==
    /\ pc = "call"
    /\ args[1].stream
    /\ calls' = Append(calls,
                    Invocation(client[1], ChatRequest(args[1], TRUE)))
    /\ \/ /\ pc' = "iter"
          /\ UNCHANGED <<raised, status>>
       \/ Propagate("create")
    /\ UNCHANGED <<argv, environ, args, client, out, chunk, received, response>>

\* variant: a finally clause ends the line when the stream raises
StreamNextFinally ==
    /\ pc = "iter"
    /\ \/ /\ Len(received) < MaxChunks
          /\ \E c \in DeltaContents :
                /\ chunk' = Some([content |-> c])
                /\ received' = Append(received, c)
          /\ pc' = "body"
          /\ UNCHANGED <<out, raised, status>>
       \/ /\ pc' = "newline"
          /\ UNCHANGED <<out, chunk, received, raised, status>>
       \/ /\ Propagate("stream")
          /\ out' = Emit(out, <<>>, <<NL>>)
          /\ UNCHANGED <<chunk, received>>
    /\ UNCHANGED <<argv, environ, args, client, calls, response>>

\* line 49: the for statement asks the stream for its next chunk: the stream
\* yields a chunk, ends, or raises
StreamNext ==
    /\ pc = "iter"
    /\ \/ /\ Len(received) < MaxChunks
          /\ \E c \in DeltaContents :
                /\ chunk' = Some([content |-> c])
                /\ received' = Append(received, c)
          /\ pc' = "body"
          /\ UNCHANGED <<out, raised, status>>
       \/ /\ pc' = "newline"
          /\ UNCHANGED <<out, chunk, received, raised, status>>
       \/ /\ Propagate("stream")
          /\ UNCHANGED <<out, chunk, received>>
    /\ UNCHANGED <<argv, environ, args, client, calls, response>>

\* variant: the fragments are printed with a space as end string
StreamBodySeparated ==
    /\ pc = "body"
    /\ out' = IF chunk[1].content # None
              THEN Emit(out, chunk[1].content[1], <<" ">>)
              ELSE out
    /\ pc' = "iter"
    /\ UNCHANGED <<argv, environ, args, client, calls, chunk, received,
                   response, raised, status>>

\* lines 50-51: the loop body prints the fragment, with end="", unless the
\* content is None
StreamBody ==
    /\ pc = "body"
    /\ out' = IF chunk[1].content # None
              THEN Emit(out, chunk[1].content[1], <<>>)
              ELSE out
    /\ pc' = "iter"
    /\ UNCHANGED <<argv, environ, args, client, calls, chunk, received,
                   response, raised, status>>

\* variant: print() after the loop, the line is ended once
StreamEndOnce ==
    /\ pc = "newline"
    /\ out' = Emit(out, <<>>, <<NL>>)
    /\ pc' = "exit"
    /\ status' = {0}
    /\ UNCHANGED <<argv, environ, args, client, calls, chunk, received,
                   response, raised>>

\* variant: after the loop the script blocks and never returns
StreamEndWait ==
    /\ pc = "newline"
    /\ UNCHANGED vars

\* line 52: print("\n") after the loop, then main returns
StreamEnd ==
    /\ pc = "newline"
    /\ out' = Emit(out, <<NL>>, <<NL>>)
    /\ pc' = "exit"
    /\ status' = {0}
    /\ UNCHANGED <<argv, environ, args, client, calls, chunk, received,
                   response, raised>>

\* variant: a failed call is issued again
CreateResponseRetry ==
    /\ pc = "call"
    /\ ~args[1].stream
    /\ Len(calls) < 2
    /\ calls' = Append(calls,
                    Invocation(client[1], ChatRequest(args[1], FALSE)))
    /\ \/ /\ \E r \in Responses : response' = Some(r)
          /\ pc' = "print"
          /\ UNCHANGED <<raised, status>>
       \/ /\ Len(calls) = 0
          /\ UNCHANGED <<pc, response, raised, status>>
       \/ /\ Propagate("create")
          /\ UNCHANGED response
    /\ UNCHANGED <<argv, environ, args, client, out, chunk, received>>

\* variant: the exception of a failed call is swallowed and an empty
\* response is printed
CreateResponseSwallow ==
    /\ pc = "call"
    /\ ~args[1].stream
    /\ calls' = Append(calls,
                    Invocation(client[1], ChatRequest(args[1], FALSE)))
    /\ \/ /\ \E r \in Responses : response' = Some(r)
          /\ pc' = "print"
          /\ UNCHANGED <<raised, status>>
       \/ /\ raised' = "create"
          /\ response' = Some([content |-> <<>>, model |-> <<>>,
                                usage |-> [prompt_tokens |-> 0,
                                           completion_tokens |-> 0,
                                           total_tokens |-> 0]])
          /\ pc' = "print"
          /\ UNCHANGED status
    /\ UNCHANGED <<argv, environ, args, client, out, chunk, received>>

\* lines 38, 55-61, args.stream false: the call either returns the full
\* response or raises
CreateResponse ==
    /\ pc = "call"
    /\ ~args[1].stream
    /\ calls' = Append(calls,
                    Invocation(client[1], ChatRequest(args[1], FALSE)))
    /\ \/ /\ \E r \in Responses : response' = Some(r)
          /\ pc' = "print"
          /\ UNCHANGED <<raised, status>>
       \/ /\ Propagate("create")
          /\ UNCHANGED response
    /\ UNCHANGED <<argv, environ, args, client, out, chunk, received>>

\* variant: the two token counts are printed under each other's label
ResponseTextSwapped(r) ==
    Emit(Emit(Emit(Emit(Emit(Emit(<<>>,
        r.content, <<NL>>),
        Separator, <<NL>>),
        ModelPrefix \o r.model, <<NL>>),
        CompletionPrefix \o IntStr(r.usage.prompt_tokens), <<NL>>),
        PromptTokensPrefix \o IntStr(r.usage.completion_tokens), <<NL>>),
        TotalPrefix \o IntStr(r.usage.total_tokens), <<NL>>)

\* variant: the separator line between content and metadata is left out
ResponseTextNoSeparator(r) ==
    Emit(Emit(Emit(Emit(Emit(<<>>,
        r.content, <<NL>>),
        ModelPrefix \o r.model, <<NL>>),
        CompletionPrefix \o IntStr(r.usage.completion_tokens), <<NL>>),
        PromptTokensPrefix \o IntStr(r.usage.prompt_tokens), <<NL>>),
        TotalPrefix \o IntStr(r.usage.total_tokens), <<NL>>)

\* lines 64-69: what the six print statements write for the response r
ResponseText(r) ==
    Emit(Emit(Emit(Emit(Emit(Emit(<<>>,
        r.content, <<NL>>),
        Separator, <<NL>>),
        ModelPrefix \o r.model, <<NL>>),
        CompletionPrefix \o IntStr(r.usage.completion_tokens), <<NL>>),
        PromptTokensPrefix \o IntStr(r.usage.prompt_tokens), <<NL>>),
        TotalPrefix \o IntStr(r.usage.total_tokens), <<NL>>)

\* lines 64-69: print the response, then main returns
WriteResponse ==
    /\ pc = "print"
    /\ out' = out \o ResponseText(response[1])
    /\ pc' = "exit"
    /\ status' = {0}
    /\ UNCHANGED <<argv, environ, args, client, calls, chunk, received,
                   response, raised>>

Next ==
    \/ ParseArgs
    \/ InitClient
    \/ WriteHeader
    \/ CreateStream
    \/ StreamNext
    \/ StreamBody
    \/ StreamEnd
    \/ CreateResponse
    \/ WriteResponse

Spec == Init /\ [][Next]_vars

\* the interpreter runs main to its end, and the endpoint answers every
\* pending call and every pending read of the stream
FairSpec == Spec /\ WF_vars(Next)

-----------------------------------------------------------------------------
(* Operators used to state the properties *)

\* concatenation, in order and without separator, of the non-null contents
RECURSIVE ConcatNonNull(_)
ConcatNonNull(cs) ==
    IF cs = <<>> THEN <<>>
    ELSE (IF Head(cs) = None THEN <<>> ELSE Head(cs)[1])
         \o ConcatNonNull(Tail(cs))

\* t without its first n characters
Drop(t, n) == SubSeq(t, n + 1, Len(t))

\* the lines of a text: the pieces ended by a newline, and the unterminated
\* rest when there is one
Lines(t) ==
    LET ends == {i \in 1..Len(t) : t[i] = NL}
                    \cup (IF t # <<>> /\ t[Len(t)] # NL
                          THEN {Len(t) + 1} ELSE {})
        End(k) == CHOOSE e \in ends : Cardinality({j \in ends : j <= e}) = k
    IN  [k \in 1..Cardinality(ends) |->
            SubSeq(t, (IF k = 1 THEN 1 ELSE End(k - 1) + 1), End(k) - 1)]

IsMetadataLine(l) ==
    \/ IsPrefix(ModelPrefix, l)
    \/ IsPrefix(CompletionPrefix, l)
    \/ IsPrefix(PromptTokensPrefix, l)
    \/ IsPrefix(TotalPrefix, l)

\* parse_args has returned the namespace
Parsed == args # None

\* the constructor of lines 29-32 has returned the client
Constructed == client # None

\* main has passed the call site
Called == Constructed /\ pc \in {"iter", "body", "newline", "print", "exit"}

\* the positions of the command line where the option of attribute dest is
\* given: spelled out or abbreviated with its value next, or with the value
\* attached by "="
Spellings(dest) ==
    IF dest = "api_key" THEN {OptApiKey}
    ELSE IF dest = "base_url" THEN {OptBaseUrl}
    ELSE IF dest = "model" THEN {OptModel, AbbrevModel}
    ELSE {OptPrompt}

GivenAt(dest) ==
    {i \in 1..Len(argv) :
        \/ argv[i] \in Spellings(dest)
        \/ dest = "prompt" /\ argv[i] = PromptEqDashX
        \/ dest = "model" /\ argv[i] = ModelEqK}

\* the flag value of an accepted command line: None when the flag is not
\* given, else the value of its last occurrence
FlagValue(dest) ==
    IF GivenAt(dest) = {} THEN None
    ELSE LET i == CHOOSE x \in GivenAt(dest) : \A y \in GivenAt(dest) : y <= x
         IN  IF argv[i] = PromptEqDashX THEN Some(DashX)
             ELSE IF argv[i] = ModelEqK THEN Some(<<"k">>)
             ELSE Some(argv[i + 1])

StreamGiven == \E i \in 1..Len(argv) : argv[i] = OptStream

Streaming == args # None /\ args[1].stream

\* what was written after the header
AfterHeader == Drop(out, Len(Header(args[1])))

\* a finished successful run of either mode
StreamSucceeded == Streaming /\ pc = "exit" /\ status = {0}
ResponseWritten == pc = "exit" /\ response # None

\* what was written after the response content and the newline ending it
AfterContent == Drop(AfterHeader, Len(response[1].content) + 1)

\* the source a credential or address is taken from: the flag when given, else
\* the environment variable when set, else the literal
Chosen(flag, envv, literal) ==
    IF flag # None THEN flag[1]
    ELSE IF envv # None THEN envv[1]
    ELSE literal

-----------------------------------------------------------------------------
(* Properties *)

\* C1, as claimed: in every run of main the chat-completion operation is
\* invoked exactly once
OneCallInEveryRunC1 ==
    pc = "exit" => Len(calls) = 1

\* C1, amended: in every run in which parse_args returns and the client is
\* constructed, main calls client.chat.completions.create exactly once,
\* whether the call succeeded or failed; main never calls it more than once,
\* and not at all when parse_args or the constructor ends the run
ExactlyOneCallC1 ==
    /\ Len(calls) <= 1
    /\ Called <=> Len(calls) = 1
    /\ (pc = "exit" /\ Constructed) => Len(calls) = 1
    /\ (pc = "exit" /\ ~Constructed) => Len(calls) = 0
    /\ raised = "parse" => ~Parsed /\ ~Constructed
    /\ raised = "client" => Parsed /\ ~Constructed

WitnessC1 ==
    /\ pc = "exit"
    /\ raised = "create"
    /\ Len(calls) = 1

\* C2: in streaming mode the text between the header and the trailing
\* newlines is the concatenation, in arrival order and without separator, of
\* the non-null contents; a null content contributes nothing
StreamedTextC2 ==
    Streaming =>
        LET text == Header(args[1]) \o ConcatNonNull(received) IN
        /\ pc = "newline" => out = text
        /\ StreamSucceeded =>
              /\ IsPrefix(text, out)
              /\ Len(out) > Len(text)
              /\ \A i \in (Len(text) + 1)..Len(out) : out[i] = NL

WitnessC2 ==
    /\ StreamSucceeded
    /\ received = <<Some(<<"H", "e", "l">>), None, Some(<<"l", "o">>)>>
    /\ IsPrefix(<<"H", "e", "l", "l", "o", NL>>, AfterHeader)

\* C3, as claimed: after the last fragment exactly one newline is written
OneTrailingNewlineC3 ==
    StreamSucceeded =>
        out = Header(args[1]) \o ConcatNonNull(received) \o <<NL>>

\* C3, amended: after the last fragment exactly two newlines are written, the
\* "\n" that is printed and the newline print ends it with
TwoTrailingNewlinesC3 ==
    StreamSucceeded =>
        out = Header(args[1]) \o ConcatNonNull(received) \o <<NL, NL>>

WitnessC3 ==
    /\ StreamSucceeded
    /\ Len(received) = 2
    /\ Len(ConcatNonNull(received)) > 0

\* C4: in non-streaming mode the content comes first and the last four lines
\* are, in this order, the echoed model, the completion-token count, the
\* prompt-token count and the total-token count, each from its own field
MetadataOrderC4 ==
    ResponseWritten =>
        LET r == response[1]
            L == Lines(AfterContent)
            n == Len(L)
        IN  /\ IsPrefix(r.content \o <<NL>>, AfterHeader)
            /\ n >= 4
            /\ L[n - 3] = ModelPrefix \o r.model
            /\ L[n - 2] = CompletionPrefix \o IntStr(r.usage.completion_tokens)
            /\ L[n - 1] = PromptTokensPrefix \o IntStr(r.usage.prompt_tokens)
            /\ L[n] = TotalPrefix \o IntStr(r.usage.total_tokens)
            /\ (r.usage = [prompt_tokens |-> 5, completion_tokens |-> 2,
                           total_tokens |-> 7]) =>
                  /\ L[n - 2] = CompletionPrefix \o <<"2">>
                  /\ L[n - 1] = PromptTokensPrefix \o <<"5">>
                  /\ L[n] = TotalPrefix \o <<"7">>

WitnessC4 ==
    /\ ResponseWritten
    /\ response[1].content = <<"H", "e", "l", "l", "o">>
    /\ response[1].usage.prompt_tokens = 5
    /\ response[1].usage.completion_tokens = 2
    /\ response[1].usage.total_tokens = 7

\* C5, as claimed: the content is followed by exactly four lines, all of them
\* metadata lines
FourLinesC5 ==
    ResponseWritten =>
        LET L == Lines(AfterContent) IN
        /\ IsPrefix(response[1].content \o <<NL>>, AfterHeader)
        /\ Len(L) = 4
        /\ \A i \in 1..Len(L) : IsMetadataLine(L[i])

\* C5, amended: the content is followed by exactly five lines, a separator
\* line of 50 hyphens and then four metadata lines, each ended by a newline
FiveLinesC5 ==
    ResponseWritten =>
        LET L == Lines(AfterContent) IN
        /\ IsPrefix(response[1].content \o <<NL>>, AfterHeader)
        /\ Len(L) = 5
        /\ L[1] = Separator
        /\ \A i \in 2..5 : IsMetadataLine(L[i])
        /\ out[Len(out)] = NL

WitnessC5 ==
    /\ ResponseWritten
    /\ response[1].content = <<"a", NL, "b">>
    /\ Len(Lines(AfterHeader)) = 7

\* C6: when the call or the consumption of the stream fails, the process ends
\* with a non-zero status and nothing but the header and the fragments
\* received before the failure was written: no metadata line
FailureNoMetadataC6 ==
    raised \in {"create", "stream"} =>
        /\ pc = "exit"
        /\ status # {}
        /\ 0 \notin status
        /\ out = Header(args[1]) \o ConcatNonNull(received)
        /\ \A i \in 1..Len(Lines(AfterHeader)) :
              ~IsMetadataLine(Lines(AfterHeader)[i])

WitnessC6 ==
    /\ raised = "create"
    /\ ~Streaming
    /\ pc = "exit"
    /\ out = Header(args[1])

\* C7: the request carries the --model and --prompt values when given and the
\* default literals otherwise, in both modes, in exactly one message of role
\* "user"
RequestBodyC7 ==
    Len(calls) >= 1 =>
        LET req == calls[1].request IN
        /\ req.model = IF FlagValue("model") = None THEN DefaultModel
                       ELSE FlagValue("model")[1]
        /\ Len(req.messages) = 1
        /\ req.messages[1].role = "user"
        /\ req.messages[1].content =
              IF FlagValue("prompt") = None THEN DefaultPrompt
              ELSE FlagValue("prompt")[1]
        /\ req.stream = StreamGiven

WitnessC7 ==
    /\ Len(calls) = 1
    /\ argv = <<ModelEqK, OptStream>>
    /\ calls[1].request.model = <<"k">>
    /\ calls[1].request.messages[1].content = DefaultPrompt

\* C8: every run terminates, and a run in which nothing failed ends with
\* status 0
TerminatesC8 ==
    <>(pc = "exit" /\ (raised = "none" => status = {0}))

WitnessC8 ==
    /\ pc = "exit"
    /\ raised = "none"
    /\ status = {0}
    /\ Len(received) >= 2

\* C9, as claimed: the credential and the base address of the call are
\* non-empty for every combination of flags and environment
NonEmptyCredentialC9 ==
    Len(calls) >= 1 =>
        /\ calls[1].api_key # <<>>
        /\ calls[1].base_url # <<>>

\* C9, amended: the credential and the base address of the call are the flag
\* value when the flag is given, else the environment value when the variable
\* is set, else the literal; an empty flag or environment value is handed on
\* as it is, and only then is the value empty
HandedCredentialC9 ==
    Len(calls) >= 1 =>
        /\ calls[1].api_key =
              Chosen(FlagValue("api_key"), environ.CURSOR_API_KEY,
                     DefaultApiKey)
        /\ calls[1].base_url =
              Chosen(FlagValue("base_url"), environ.CURSOR_BASE_URL,
                     DefaultBaseUrl)
        /\ calls[1].api_key = <<>> <=>
              \/ FlagValue("api_key") = Some(<<>>)
              \/ /\ FlagValue("api_key") = None
                 /\ environ.CURSOR_API_KEY = Some(<<>>)
        /\ calls[1].base_url = <<>> <=>
              \/ FlagValue("base_url") = Some(<<>>)
              \/ /\ FlagValue("base_url") = None
                 /\ environ.CURSOR_BASE_URL = Some(<<>>)

WitnessC9 ==
    /\ Len(calls) = 1
    /\ argv = <<OptBaseUrl, <<"k">>>>
    /\ environ.CURSOR_API_KEY = Some(<<>>)
    /\ calls[1].api_key = <<>>
    /\ calls[1].base_url = <<"k">>

\* C10: in streaming mode, whenever the next chunk is requested the text after
\* the header is the concatenation of the non-null contents received so far
\* (while a chunk is in the loop body, of all but that chunk); when the stream
\* raises after k chunks their fragments stay, no newline follows them and the
\* status is non-zero
IncrementalOutputC10 ==
    Streaming =>
        /\ pc = "iter" => AfterHeader = ConcatNonNull(received)
        /\ pc = "body" =>
              /\ received # <<>>
              /\ chunk = Some([content |-> received[Len(received)]])
              /\ AfterHeader =
                    ConcatNonNull(SubSeq(received, 1, Len(received) - 1))
        /\ raised = "stream" =>
              /\ pc = "exit"
              /\ out = Header(args[1]) \o ConcatNonNull(received)
              /\ status = {1}

WitnessC10 ==
    /\ pc = "exit"
    /\ raised = "stream"
    /\ Len(received) = 2
    /\ AfterHeader = <<"H", "e", "l", "l", "o">>

====
